---- MODULE Spec2Model ----
(***************************************************************************)
(* A model of the Verilog black-boxing tool (verilog-blackboxing.py): the  *)
(* dependency-graph builder, the breadth-first reachability engine, the    *)
(* blacklist set algebra of the main script and the annotation writer.     *)
(***************************************************************************)
EXTENDS Integers, Sequences, FiniteSets, TLC

\* ------------------------------------------------------------------------
\* Bounds of the model
\* ------------------------------------------------------------------------
\* the module names graphs are drawn over
Names == {"Top", "A", "B", "C"}

\* the largest number of edges of a graph drawn as an input
MaxEdges == 3

\* the largest number of edges of a graph on which two calls of
\* find_all_reachable with two seed sets are compared
MaxReachEdges == 2

\* the largest number of whitelist seeds drawn as an input
MaxSeeds == 2

\* Python's None for current_module
NoModule == "<None>"

\* the exit status of a process that has not exited yet
Running == -1

VARIABLES
    pc,                       \* position of the script
    ret,                      \* where the running function returns to
    lines,                    \* the lines of input_verilog_file
    graph,                    \* dependency_graph: key -> set of names
    boundary_module,          \* configuration, line 81
    internal_whitelist_seeds, \* configuration, lines 84-87
    start_nodes,              \* argument of find_all_reachable
    reachable_set,            \* locals of find_all_reachable
    queue,
    visited,
    modules_inside_boundary,  \* lines 99-100
    internal_keep_set,        \* line 104
    blacklist_set,            \* line 109
    infile,                   \* the lines annotate_verilog reads
    apos,                     \* the next line of infile to read
    outfile,                  \* the lines written to the output file
    out_open,                 \* the output file has been opened for writing
    annotated_count,          \* line 59
    exit_status,              \* exit status once the process has ended
    first_seeds,              \* seed sets and results of two successive
    second_seeds,             \*   calls of find_all_reachable
    first_result,
    second_result,
    first_output,             \* output of a first annotate_verilog run
    par_reachable_set,        \* locals of a second find_all_reachable call
    par_queue,                \*   that runs while the first is running
    par_visited,
    par_state,                \* "idle", "running" or "returned", per call
    i,                        \* btor2-cleaner.py: line index, line 19
    processed_lines,          \* btor2-cleaner.py: line 18
    defined_modules,          \* ext_definition_adder.py: arguments of
    module_declarations,      \*   find_and_define_missing_modules
    missing_modules_to_generate, \* ext_definition_adder.py: lines 65-69
    current_parent_module,
    parsing_instantiation,
    current_connections,
    current_ext_module_name,
    epos,                     \* the number of the next line the loop of line 71 reads
    ext_line                  \* "line": the line that loop holds

vars == <<pc, ret, lines, graph, boundary_module, internal_whitelist_seeds,
          start_nodes, reachable_set, queue, visited,
          modules_inside_boundary, internal_keep_set, blacklist_set,
          infile, apos, outfile, out_open, annotated_count, exit_status,
          first_seeds, second_seeds, first_result, second_result,
          first_output, par_reachable_set, par_queue, par_visited, par_state,
          i, processed_lines, defined_modules, module_declarations,
          missing_modules_to_generate, current_parent_module,
          parsing_instantiation, current_connections,
          current_ext_module_name, epos, ext_line>>

reachVars == <<start_nodes, reachable_set, queue, visited>>
mainVars  == <<modules_inside_boundary, internal_keep_set, blacklist_set>>
confVars  == <<lines, graph, boundary_module, internal_whitelist_seeds>>
annotVars == <<infile, apos, outfile, out_open, annotated_count>>
callVars  == <<first_seeds, second_seeds, first_result, second_result,
               first_output>>
parVars   == <<par_reachable_set, par_queue, par_visited, par_state>>
btorVars  == <<i, processed_lines>>
extVars   == <<defined_modules, module_declarations,
               missing_modules_to_generate, current_parent_module,
               parsing_instantiation, current_connections,
               current_ext_module_name, epos, ext_line>>
toolVars  == <<parVars, btorVars, extVars>>

\* ------------------------------------------------------------------------
\* Input domains
\* ------------------------------------------------------------------------
\* all orders in which a Python set can be iterated
Orders(S) ==
    {s \in [1..Cardinality(S) -> S] :
        \A a, b \in 1..Cardinality(S) : a # b => s[a] # s[b]}

\* a dict of sets with keys K and the edges E
GraphOf(K, E) == [k \in K |-> {n \in Names : <<k, n>> \in E}]

\* the graphs over Names with at most n edges
GraphsUpTo(n) ==
    UNION {{GraphOf(K, E) : E \in {X \in SUBSET (K \X Names) : Cardinality(X) <= n}} :
             K \in SUBSET Names}

\* the graphs the blacklist calculation is run on
Graphs == GraphsUpTo(MaxEdges)

\* the graphs pairs of find_all_reachable calls are run on
ReachGraphs == GraphsUpTo(MaxReachEdges)

SeedSets == {S \in SUBSET Names : Cardinality(S) <= MaxSeeds}

\* ------------------------------------------------------------------------
\* The text of a Verilog file
\* ------------------------------------------------------------------------
\* A line is its leading whitespace (a count) and its tokens.
\* the module names that occur in the files drawn as inputs
FileNames == {"Top", "Sub", "A"}

\* the largest number of lines of a file drawn as an input
MaxLines == 3

\* the result of a regular expression that does not match
NoMatch == "<NoMatch>"

\* tokens that no identifier pattern matches
Punctuation == {"(", ")", ");", "(*", "*)", "#", ".", ","}

\* [a-zA-Z_][\w]* : an identifier
IsIdentifier(tok) == tok \notin Punctuation

\* [a-zA-Z_][\w]+ : an identifier of two characters or more
IsLongIdentifier(tok) == IsIdentifier(tok) /\ Len(tok) >= 2

\* line 13 and line 58: ^\s*module\s+([a-zA-Z_][\w]*), group 1 or no match
module_def_regex(line) ==
    IF /\ Len(line.toks) >= 2
       /\ line.toks[1] = "module"
       /\ IsIdentifier(line.toks[2])
    THEN line.toks[2]
    ELSE NoMatch

\* line 15: ^\s*([a-zA-Z_][\w]+)\s+(?:#\s*\(.*?\))?\s*([a-zA-Z_][\w]+)\s*\( ,
\* group 1 or no match
inst_regex(line) ==
    IF /\ Len(line.toks) >= 3
       /\ IsLongIdentifier(line.toks[1])
       /\ IsLongIdentifier(line.toks[2])
       /\ line.toks[3] = "("
    THEN line.toks[1]
    ELSE NoMatch

\* ext_definition_adder.py lines 17 and 63: ^\s*endmodule
endmodule_regex(line) == Len(line.toks) >= 1 /\ line.toks[1] = "endmodule"

ModuleLine(indent, name) == [indent |-> indent, toks |-> <<"module", name, "(">>]
InstanceLine(name) == [indent |-> 2, toks |-> <<name, "u0", "(">>]
EndmoduleLine == [indent |-> 0, toks |-> <<"endmodule">>]

\* line 69: the annotation line written with a given indentation
BlackboxLine(indent) == [indent |-> indent, toks |-> <<"(*", "blackbox", "*)">>]

\* the definition of Sub is indented, the other definitions are not
LineValues ==
    {ModuleLine(IF n = "Sub" THEN 2 ELSE 0, n) : n \in FileNames}
    \cup {InstanceLine(n) : n \in FileNames}
    \cup {EndmoduleLine, BlackboxLine(0)}

Files == UNION {[1..n -> LineValues] : n \in 0..MaxLines}

FileSeedSets == {S \in SUBSET FileNames : Cardinality(S) <= MaxSeeds}

\* ------------------------------------------------------------------------
\* build_verilog_dependency_graph
\* ------------------------------------------------------------------------
\* lines 26-27: add a key with an empty set unless the key is present
AddKey(g, name) ==
    [k \in DOMAIN g \cup {name} |-> IF k \in DOMAIN g THEN g[k] ELSE {}]

\* line 36 adding the edge only when the instantiated module has been
\* defined already ("if instantiated_module in dependency_graph")
AddEdgeIfDefined(g, key, name) ==
    IF name \in DOMAIN g THEN [g EXCEPT ![key] = @ \cup {name}] ELSE g

\* line 36: dependency_graph[current_module].add(instantiated_module)
AddEdge(g, key, name) == [g EXCEPT ![key] = @ \cup {name}]

\* lines 23-36: the loop body for one line; st is
\* [dependency_graph, current_module]
BuildLine(st, line) ==
    IF module_def_regex(line) # NoMatch
    THEN [dependency_graph |-> AddKey(st.dependency_graph, module_def_regex(line)),
          current_module   |-> module_def_regex(line)]
    ELSE IF /\ st.current_module # NoModule
            /\ inst_regex(line) # NoMatch
            /\ inst_regex(line) # "module"
         THEN [dependency_graph |-> AddEdge(st.dependency_graph,
                                            st.current_module, inst_regex(line)),
               current_module   |-> st.current_module]
         ELSE st

\* lines 17-39: the pass over the first n lines of the file
RECURSIVE BuildPrefix(_, _)
BuildPrefix(file, n) ==
    IF n = 0
    THEN [dependency_graph |-> <<>>, current_module |-> NoModule]
    ELSE BuildLine(BuildPrefix(file, n - 1), file[n])

build_verilog_dependency_graph(file) ==
    BuildPrefix(file, Len(file)).dependency_graph

\* ------------------------------------------------------------------------
\* annotate_verilog
\* ------------------------------------------------------------------------
\* lines 64-67: the line is a definition of a module of the blacklist
IsBlacklisted(line, blacklist) ==
    /\ module_def_regex(line) # NoMatch
    /\ module_def_regex(line) \in blacklist

\* lines 69 and 71 exchanged: the annotation written after the line
WrittenAfter(line, blacklist) ==
    IF IsBlacklisted(line, blacklist)
    THEN <<line, BlackboxLine(line.indent)>>
    ELSE <<line>>

\* lines 64-71: what is written to the output for one input line
WrittenFor(line, blacklist) ==
    IF IsBlacklisted(line, blacklist)
    THEN <<BlackboxLine(line.indent), line>>
    ELSE <<line>>

\* line 62: open the input for reading and the output for writing
AnnotateOpen(input, retpc) ==
    /\ infile' = input
    /\ apos' = 1
    /\ outfile' = <<>>
    /\ out_open' = TRUE
    /\ annotated_count' = 0
    /\ ret' = retpc
    /\ pc' = "annot_loop"

\* lines 63-71: one iteration of the loop over the input lines
AnnotateLine ==
    /\ pc = "annot_loop"
    /\ apos <= Len(infile)
    /\ outfile' = outfile \o WrittenFor(infile[apos], blacklist_set)
    /\ annotated_count' = IF IsBlacklisted(infile[apos], blacklist_set)
                          THEN annotated_count + 1 ELSE annotated_count
    /\ apos' = apos + 1
    /\ UNCHANGED <<pc, ret, infile, out_open, reachVars, mainVars, confVars,
                   callVars, exit_status, toolVars>>

\* lines 63, 73: the input is exhausted, both files are closed
AnnotateReturn ==
    /\ pc = "annot_loop"
    /\ apos > Len(infile)
    /\ pc' = ret
    /\ UNCHANGED <<ret, annotVars, reachVars, mainVars, confVars, callVars,
                   exit_status, toolVars>>

\* ------------------------------------------------------------------------
\* find_all_reachable
\* ------------------------------------------------------------------------
\* line 43 without the filter ("set(start_nodes)")
AllSeeds(g, start) == start

\* the filter of line 43 inverted ("if s not in graph")
UndefinedSeeds(g, start) == {s \in start : s \notin DOMAIN g}

\* line 43: the start nodes that are keys of the graph
DefinedSeeds(g, start) == {s \in start : s \in DOMAIN g}

\* line 45 copying the start nodes instead ("visited = set(start_nodes)")
VisitedFromStart(reachable, start) == start

\* line 45 with visited kept in one module-level set that both calls add
\* to and neither resets
VisitedShared(reachable, start) == reachable \cup visited \cup par_visited

\* line 45: the visited set starts as a copy of reachable_set
InitialVisited(reachable, start) == reachable

\* lines 50-53 without the queue.append of line 53
VisitWithoutEnqueue(st, dependency) ==
    IF dependency \notin st.visited
    THEN [reachable_set |-> st.reachable_set \cup {dependency},
          visited       |-> st.visited \cup {dependency},
          queue         |-> st.queue]
    ELSE st

\* lines 50-53 without the visited.add of line 51
VisitWithoutMark(st, dependency) ==
    IF dependency \notin st.visited
    THEN [reachable_set |-> st.reachable_set \cup {dependency},
          visited       |-> st.visited,
          queue         |-> Append(st.queue, dependency)]
    ELSE st

\* lines 50-53 following only the names that are keys of the graph
\* ("if dependency not in visited and dependency in graph")
VisitDefinedOnly(st, dependency) ==
    IF dependency \notin st.visited /\ dependency \in DOMAIN graph
    THEN [reachable_set |-> st.reachable_set \cup {dependency},
          visited       |-> st.visited \cup {dependency},
          queue         |-> Append(st.queue, dependency)]
    ELSE st

\* lines 50-53 for one dependency: st is [reachable_set, visited, queue]
VisitDependency(st, dependency) ==
    IF dependency \notin st.visited
    THEN [reachable_set |-> st.reachable_set \cup {dependency},
          visited       |-> st.visited \cup {dependency},
          queue         |-> Append(st.queue, dependency)]
    ELSE st

\* lines 49-53: the for loop over the edge set, iterated in the given order
RECURSIVE ExpandDependencies(_, _)
ExpandDependencies(st, order) ==
    IF order = <<>> THEN st
    ELSE ExpandDependencies(VisitDependency(st, Head(order)), Tail(order))

\* line 47 reading the head without removing it ("queue[0]")
PopNothing(q) == q

\* line 47: what queue.popleft() leaves in the queue
PopLeft(q) == Tail(q)

\* lines 41-45: the call and the three initialisations
ReachCall(start, retpc) ==
    /\ start_nodes' = start
    /\ reachable_set' = DefinedSeeds(graph, start)
    /\ queue' \in Orders(reachable_set')
    /\ visited' = InitialVisited(reachable_set', start)
    /\ ret' = retpc
    /\ pc' = "reach_loop"

\* lines 46-53: one iteration of the while loop
ReachIter ==
    /\ pc = "reach_loop"
    /\ queue # <<>>
    /\ LET module == Head(queue)
           st0 == [reachable_set |-> reachable_set, visited |-> visited,
                   queue |-> PopLeft(queue)]
       IN IF module \in DOMAIN graph
          THEN \E order \in Orders(graph[module]) :
                  LET st == ExpandDependencies(st0, order)
                  IN /\ reachable_set' = st.reachable_set
                     /\ visited' = st.visited
                     /\ queue' = st.queue
          ELSE /\ queue' = st0.queue
               /\ UNCHANGED <<reachable_set, visited>>
    /\ UNCHANGED <<pc, ret, start_nodes, mainVars, confVars, annotVars, callVars, exit_status, toolVars>>

\* lines 46, 54: the queue is empty, return reachable_set
ReachReturn ==
    /\ pc = "reach_loop"
    /\ queue = <<>>
    /\ pc' = ret
    /\ UNCHANGED <<ret, reachVars, mainVars, confVars, annotVars, callVars, exit_status, toolVars>>

\* ------------------------------------------------------------------------
\* The main script
\* ------------------------------------------------------------------------
\* line 100 left out
DiscardNothing(s, name) == s

\* line 100: set.discard
Discard(s, name) == s \ {name}

\* line 109 with the operands exchanged
DifferenceSwapped(inside, keep) == keep \ inside

\* line 109 with ^ in place of -
DifferenceSymmetric(inside, keep) == (inside \ keep) \cup (keep \ inside)

\* line 109: set difference
Difference(inside, keep) == inside \ keep

\* line 99: modules_inside_boundary = find_all_reachable(graph, [boundary_module])
Step2Call ==
    /\ pc = "step2"
    /\ ReachCall({boundary_module}, "step2_ret")
    /\ UNCHANGED <<mainVars, confVars, annotVars, callVars, exit_status, toolVars>>

\* lines 99-100: bind the result and discard the boundary module
Step2Ret ==
    /\ pc = "step2_ret"
    /\ modules_inside_boundary' = Discard(reachable_set, boundary_module)
    /\ pc' = "step3"
    /\ UNCHANGED <<ret, reachVars, internal_keep_set, blacklist_set, confVars,
                   annotVars, callVars, exit_status, toolVars>>

\* line 104: internal_keep_set = find_all_reachable(graph, internal_whitelist_seeds)
Step3Call ==
    /\ pc = "step3"
    /\ ReachCall(internal_whitelist_seeds, "step3_ret")
    /\ UNCHANGED <<mainVars, confVars, annotVars, callVars, exit_status, toolVars>>

Step3Ret ==
    /\ pc = "step3_ret"
    /\ internal_keep_set' = reachable_set
    /\ pc' = "step4"
    /\ UNCHANGED <<ret, reachVars, modules_inside_boundary, blacklist_set,
                   confVars, annotVars, callVars, exit_status, toolVars>>

\* line 109: blacklist_set = modules_inside_boundary - internal_keep_set
Step4 ==
    /\ pc = "step4"
    /\ blacklist_set' = Difference(modules_inside_boundary, internal_keep_set)
    /\ pc' = "step5"
    /\ UNCHANGED <<ret, reachVars, modules_inside_boundary, internal_keep_set,
                   confVars, annotVars, callVars, exit_status, toolVars>>

\* line 93 without the test
BoundaryUnchecked(g, boundary) == TRUE

\* line 93: the boundary module is a key of the graph
BoundaryDefined(g, boundary) == boundary \in DOMAIN g

\* line 91: graph = build_verilog_dependency_graph(input_verilog_file)
Step1 ==
    /\ pc = "step1"
    /\ graph' = build_verilog_dependency_graph(lines)
    /\ pc' = "check"
    /\ UNCHANGED <<ret, lines, boundary_module, internal_whitelist_seeds,
                   reachVars, mainVars, annotVars, callVars, exit_status, toolVars>>

\* lines 93-95: the fatal error when the boundary module is not found
BoundaryCheck ==
    /\ pc = "check"
    /\ IF BoundaryDefined(graph, boundary_module)
       THEN /\ pc' = "step2"
            /\ UNCHANGED exit_status
       ELSE /\ pc' = "fatal"
            /\ exit_status' = 1
    /\ UNCHANGED <<ret, reachVars, mainVars, confVars, annotVars, callVars,
                   toolVars>>

\* line 119: annotate_verilog(input_verilog_file, output_verilog_file, blacklist_set)
Step5Call ==
    /\ pc = "step5"
    /\ AnnotateOpen(lines, "step5_ret")
    /\ UNCHANGED <<reachVars, mainVars, confVars, callVars, exit_status, toolVars>>

\* the end of the script: the process exits normally
Exit ==
    /\ pc = "step5_ret"
    /\ pc' = "done"
    /\ exit_status' = 0
    /\ UNCHANGED <<ret, reachVars, mainVars, confVars, annotVars, callVars,
                   toolVars>>

\* the variables of annotate_verilog before it is called
NoAnnotate ==
    /\ infile = <<>>
    /\ apos = 1
    /\ outfile = <<>>
    /\ out_open = FALSE
    /\ annotated_count = 0

\* no line has been read
NoLine == [indent |-> 0, toks |-> <<>>]

\* the variables of the concurrent call and of the two other scripts
\* before anything has run
NoTools ==
    /\ par_reachable_set = {}
    /\ par_queue = <<>>
    /\ par_visited = {}
    /\ par_state = <<"idle", "idle">>
    /\ i = 0
    /\ processed_lines = <<>>
    /\ defined_modules = {}
    /\ module_declarations = <<>>
    /\ missing_modules_to_generate = <<>>
    /\ current_parent_module = NoModule
    /\ parsing_instantiation = FALSE
    /\ current_connections = <<>>
    /\ current_ext_module_name = NoModule
    /\ epos = 1
    /\ ext_line = NoLine

\* no pair of find_all_reachable calls or annotate_verilog runs is recorded
NoCalls ==
    /\ first_seeds = {}
    /\ second_seeds = {}
    /\ first_result = {}
    /\ second_result = {}
    /\ first_output = <<>>

\* ------------------------------------------------------------------------
\* SpecCalc: the blacklist calculation (lines 97-110) for every graph that
\* has passed the boundary check of line 93
\* ------------------------------------------------------------------------
InitCalc ==
    /\ pc = "step2"
    /\ ret = "none"
    /\ graph \in Graphs
    /\ boundary_module \in DOMAIN graph
    /\ internal_whitelist_seeds \in SeedSets
    /\ start_nodes = {}
    /\ reachable_set = {}
    /\ queue = <<>>
    /\ visited = {}
    /\ modules_inside_boundary = {}
    /\ internal_keep_set = {}
    /\ blacklist_set = {}
    /\ lines = <<>>
    /\ NoAnnotate
    /\ NoTools
    /\ NoCalls
    /\ exit_status = Running

NextCalc ==
    \/ Step2Call
    \/ ReachIter
    \/ ReachReturn
    \/ Step2Ret
    \/ Step3Call
    \/ Step3Ret
    \/ Step4

SpecCalc == InitCalc /\ [][NextCalc]_vars

\* ------------------------------------------------------------------------
\* Spec: the whole script, for every input file and configuration
\* ------------------------------------------------------------------------
Init ==
    /\ pc = "step1"
    /\ ret = "none"
    /\ lines \in Files
    /\ graph = <<>>
    /\ boundary_module \in FileNames
    /\ internal_whitelist_seeds \in FileSeedSets
    /\ start_nodes = {}
    /\ reachable_set = {}
    /\ queue = <<>>
    /\ visited = {}
    /\ modules_inside_boundary = {}
    /\ internal_keep_set = {}
    /\ blacklist_set = {}
    /\ NoAnnotate
    /\ NoTools
    /\ NoCalls
    /\ exit_status = Running

Next ==
    \/ Step1
    \/ BoundaryCheck
    \/ Step2Call
    \/ ReachIter
    \/ ReachReturn
    \/ Step2Ret
    \/ Step3Call
    \/ Step3Ret
    \/ Step4
    \/ Step5Call
    \/ AnnotateLine
    \/ AnnotateReturn
    \/ Exit

Spec == Init /\ [][Next]_vars

\* the script keeps running until it exits
FairSpec == Spec /\ WF_vars(Next)

\* ------------------------------------------------------------------------
\* SpecReach: two successive calls of find_all_reachable on one graph
\* ------------------------------------------------------------------------
InitReach ==
    /\ pc = "first"
    /\ ret = "none"
    /\ lines = <<>>
    /\ graph \in ReachGraphs
    /\ boundary_module = NoModule
    /\ internal_whitelist_seeds = {}
    /\ start_nodes = {}
    /\ reachable_set = {}
    /\ queue = <<>>
    /\ visited = {}
    /\ modules_inside_boundary = {}
    /\ internal_keep_set = {}
    /\ blacklist_set = {}
    /\ NoAnnotate
    /\ NoTools
    /\ first_seeds \in SeedSets
    /\ second_seeds \in SeedSets
    /\ first_result = {}
    /\ second_result = {}
    /\ first_output = <<>>
    /\ exit_status = Running

FirstCall ==
    /\ pc = "first"
    /\ ReachCall(first_seeds, "first_ret")
    /\ UNCHANGED <<mainVars, confVars, annotVars, callVars, exit_status, toolVars>>

FirstRet ==
    /\ pc = "first_ret"
    /\ first_result' = reachable_set
    /\ pc' = "second"
    /\ UNCHANGED <<ret, reachVars, mainVars, confVars, annotVars, first_seeds,
                   second_seeds, second_result, first_output, exit_status, toolVars>>

SecondCall ==
    /\ pc = "second"
    /\ ReachCall(second_seeds, "second_ret")
    /\ UNCHANGED <<mainVars, confVars, annotVars, callVars, exit_status, toolVars>>

SecondRet ==
    /\ pc = "second_ret"
    /\ second_result' = reachable_set
    /\ pc' = "done"
    /\ UNCHANGED <<ret, reachVars, mainVars, confVars, annotVars, first_seeds,
                   second_seeds, first_result, first_output, exit_status, toolVars>>

NextReach ==
    \/ FirstCall
    \/ ReachIter
    \/ ReachReturn
    \/ FirstRet
    \/ SecondCall
    \/ SecondRet

SpecReach == InitReach /\ [][NextReach]_vars

\* ------------------------------------------------------------------------
\* SpecAnnot: annotate_verilog run on a file, then on its own output
\* ------------------------------------------------------------------------
InitAnnot ==
    /\ pc = "run1"
    /\ ret = "none"
    /\ lines \in Files
    /\ graph = <<>>
    /\ boundary_module = NoModule
    /\ internal_whitelist_seeds = {}
    /\ start_nodes = {}
    /\ reachable_set = {}
    /\ queue = <<>>
    /\ visited = {}
    /\ modules_inside_boundary = {}
    /\ internal_keep_set = {}
    /\ blacklist_set \in SUBSET FileNames
    /\ NoAnnotate
    /\ NoTools
    /\ NoCalls
    /\ exit_status = Running

FirstRun ==
    /\ pc = "run1"
    /\ AnnotateOpen(lines, "run1_ret")
    /\ UNCHANGED <<reachVars, mainVars, confVars, callVars, exit_status, toolVars>>

FirstRunRet ==
    /\ pc = "run1_ret"
    /\ first_output' = outfile
    /\ pc' = "run2"
    /\ UNCHANGED <<ret, reachVars, mainVars, confVars, annotVars, first_seeds,
                   second_seeds, first_result, second_result, exit_status, toolVars>>

SecondRun ==
    /\ pc = "run2"
    /\ AnnotateOpen(first_output, "run2_ret")
    /\ UNCHANGED <<reachVars, mainVars, confVars, callVars, exit_status, toolVars>>

SecondRunRet ==
    /\ pc = "run2_ret"
    /\ pc' = "done"
    /\ UNCHANGED <<ret, reachVars, mainVars, confVars, annotVars, callVars,
                   exit_status, toolVars>>

NextAnnot ==
    \/ FirstRun
    \/ AnnotateLine
    \/ AnnotateReturn
    \/ FirstRunRet
    \/ SecondRun
    \/ SecondRunRet

SpecAnnot == InitAnnot /\ [][NextAnnot]_vars

\* ------------------------------------------------------------------------
\* Reference definitions for the properties
\* ------------------------------------------------------------------------
\* X contains every seed that is a key and every edge target of its keys
ClosedUnder(g, seeds, X) ==
    /\ \A s \in seeds : s \in DOMAIN g => s \in X
    /\ \A k \in X : k \in DOMAIN g => g[k] \subseteq X

\* the least such set: the names that are in every closed set
LeastClosed(g, seeds) ==
    {n \in Names : \A X \in SUBSET Names : ClosedUnder(g, seeds, X) => n \in X}

\* the graph {Top: {A, B}, A: {C}, B: {}, C: {}}
ScenarioGraph ==
    [k \in Names |-> IF k = "Top" THEN {"A", "B"}
                     ELSE IF k = "A" THEN {"C"} ELSE {}]

\* ------------------------------------------------------------------------
\* Properties of the blacklist calculation (SpecCalc)
\* ------------------------------------------------------------------------
\* C1: once line 109 has run, the blacklist is the set reachable from the
\* boundary, without the boundary, minus the set reachable from the
\* whitelist seeds; on the scenario graph with boundary Top and seeds {A}
\* the three sets are {A, B, C}, {A, C} and {B}.
C1_BlacklistIsDifference ==
    pc = "step5" =>
        /\ blacklist_set =
              (LeastClosed(graph, {boundary_module}) \ {boundary_module})
                 \ LeastClosed(graph, internal_whitelist_seeds)
        /\ (/\ graph = ScenarioGraph
            /\ boundary_module = "Top"
            /\ internal_whitelist_seeds = {"A"})
           => /\ modules_inside_boundary = {"A", "B", "C"}
              /\ internal_keep_set = {"A", "C"}
              /\ blacklist_set = {"B"}

C1_Witness ==
    /\ pc = "step5"
    /\ graph = ScenarioGraph
    /\ boundary_module = "Top"
    /\ internal_whitelist_seeds = {"A"}
    /\ blacklist_set = {"B"}

\* C2: the boundary module is never a member of the blacklist, nor of the
\* set of modules inside the boundary once line 100 has run.
C2_BoundaryExcluded ==
    /\ boundary_module \notin blacklist_set
    /\ pc \in {"step3", "step3_ret", "step4", "step5"}
          => boundary_module \notin modules_inside_boundary

\* the boundary is on a cycle through another module and no whitelist
\* covers it
C2_Witness ==
    /\ pc = "step5"
    /\ \E k \in DOMAIN graph :
          /\ k # boundary_module
          /\ k \in graph[boundary_module]
          /\ boundary_module \in graph[k]
    /\ boundary_module \notin internal_keep_set
    /\ blacklist_set # {}

\* C3: the blacklist and the whitelist closure have no name in common.
C3_DisjointFromKeep ==
    pc = "step5" =>
        /\ blacklist_set \cap internal_keep_set = {}
        /\ blacklist_set \cap LeastClosed(graph, internal_whitelist_seeds) = {}

C3_Witness ==
    /\ pc = "step5"
    /\ modules_inside_boundary \cap internal_keep_set # {}
    /\ ~(internal_keep_set \subseteq modules_inside_boundary)
    /\ blacklist_set # {}

C5_FatalBeforeOutput ==
    /\ [](pc = "fatal" => exit_status = 1 /\ ~out_open /\ outfile = <<>>)
    /\ []((pc # "step1" /\ boundary_module \notin DOMAIN graph)
             => /\ pc \in {"check", "fatal"}
                /\ ~out_open
                /\ outfile = <<>>)
    /\ [](pc = "done" => /\ exit_status = 0
                          /\ out_open
                          /\ Len(outfile) >= Len(lines)
                          /\ boundary_module \in DOMAIN graph)
    /\ (pc = "check" /\ boundary_module \notin DOMAIN graph) ~> (pc = "fatal")
    /\ (pc = "check" /\ boundary_module \in DOMAIN graph)
          ~> (pc = "done" /\ exit_status = 0 /\ out_open)

\* the file defines modules, none of them the boundary, and the run is in
\* the fatal state
C5_Witness ==
    /\ pc = "fatal"
    /\ DOMAIN graph # {}
    /\ boundary_module \notin DOMAIN graph

\* ------------------------------------------------------------------------
\* Properties of annotate_verilog (SpecAnnot)
\* ------------------------------------------------------------------------
\* the input lines up to k that get an annotation
MarkedUpTo(k) == {j \in 1..k : IsBlacklisted(infile[j], blacklist_set)}

\* where input line k is found in the output
OutputPosition(k) == k + Cardinality(MarkedUpTo(k))

\* C6 as stated: the second run over the first output leaves it unchanged.
C6_SecondRunUnchanged ==
    pc = "done" => outfile = first_output

\* C7: when a run of annotate_verilog returns, the output is the input in
\* the same order with one annotation line, indented like the definition
\* line, immediately before each definition line of a blacklisted module,
\* and nothing else; with an empty blacklist the output is the input.
C7_OnlyAnnotationsInserted ==
    pc \in {"run1_ret", "run2_ret"} =>
        /\ Len(outfile) = Len(infile) + Cardinality(MarkedUpTo(Len(infile)))
        /\ \A k \in 1..Len(infile) :
              /\ outfile[OutputPosition(k)] = infile[k]
              /\ k \in MarkedUpTo(k)
                    => outfile[OutputPosition(k) - 1]
                          = [indent |-> infile[k].indent,
                             toks |-> <<"(*", "blackbox", "*)">>]
        /\ annotated_count = Cardinality(MarkedUpTo(Len(infile)))
        /\ blacklist_set = {} => outfile = infile

\* an indented definition of a blacklisted module and a definition of a
\* module that is not blacklisted, in one file
C7_Witness ==
    /\ pc = "run1_ret"
    /\ \E a, b \in 1..Len(infile) :
          /\ IsBlacklisted(infile[a], blacklist_set)
          /\ infile[a].indent = 2
          /\ module_def_regex(infile[b]) # NoMatch
          /\ ~IsBlacklisted(infile[b], blacklist_set)
    /\ Len(outfile) > Len(infile)

C9_DefinedSeedsInResult ==
    /\ pc \in {"first_ret", "second_ret"}
          => \A s \in start_nodes : s \in DOMAIN graph => s \in reachable_set
    /\ pc = "done"
          => /\ \A s \in first_seeds : s \in DOMAIN graph => s \in first_result
             /\ \A s \in second_seeds : s \in DOMAIN graph => s \in second_result

\* a single seed that is a key, and a seed set with a key and a name that
\* is not a key
C9_Witness ==
    /\ pc = "done"
    /\ \E s \in DOMAIN graph : first_seeds = {s} /\ s \in first_result
    /\ second_seeds \cap DOMAIN graph # {}
    /\ ~(second_seeds \subseteq DOMAIN graph)

\* C10: when the seeds of the first call are among the seeds of the second
\* call, the first result is a subset of the second result.
C10_MonotoneInSeeds ==
    (pc = "done" /\ first_seeds \subseteq second_seeds)
        => first_result \subseteq second_result

\* the second call has a seed more, without a definition but reached by the
\* first call, and a larger seed set gives a larger result somewhere
C10_Witness ==
    /\ pc = "done"
    /\ first_seeds \subseteq second_seeds
    /\ first_seeds # second_seeds
    /\ \E s \in second_seeds \ first_seeds :
          s \notin DOMAIN graph /\ s \in first_result
    /\ first_result # {}

\* ------------------------------------------------------------------------
\* SpecOne: one call of find_all_reachable, for every graph and seed set
\* ------------------------------------------------------------------------
InitOne ==
    /\ pc = "first"
    /\ ret = "none"
    /\ lines = <<>>
    /\ graph \in Graphs
    /\ boundary_module = NoModule
    /\ internal_whitelist_seeds = {}
    /\ start_nodes = {}
    /\ reachable_set = {}
    /\ queue = <<>>
    /\ visited = {}
    /\ modules_inside_boundary = {}
    /\ internal_keep_set = {}
    /\ blacklist_set = {}
    /\ NoAnnotate
    /\ NoTools
    /\ first_seeds \in SeedSets
    /\ second_seeds = {}
    /\ first_result = {}
    /\ second_result = {}
    /\ first_output = <<>>
    /\ exit_status = Running

NextOne ==
    \/ FirstCall
    \/ ReachIter
    \/ ReachReturn
    \/ FirstRet

SpecOne == InitOne /\ [][NextOne]_vars

\* the call keeps executing until it has returned
FairOne == SpecOne /\ WF_vars(NextOne)

\* the graph {A: {B}, B: {A}}
CycleGraph == [k \in {"A", "B"} |-> IF k = "A" THEN {"B"} ELSE {"A"}]

\* C11: on every graph, cycles and self-instantiation included, the loop of
\* find_all_reachable ends with an empty queue and the function returns;
\* on the graph {A: {B}, B: {A}} seeded with {A} it returns exactly {A, B}.
C11_Terminates ==
    /\ (pc = "reach_loop") ~> (pc = "first_ret" /\ queue = <<>>)
    /\ []((pc = "first_ret" /\ graph = CycleGraph /\ start_nodes = {"A"})
             => reachable_set = {"A", "B"})

C11_Witness ==
    /\ pc = "first_ret"
    /\ graph = CycleGraph
    /\ start_nodes = {"A"}
    /\ queue = <<>>
    /\ reachable_set = {"A", "B"}

\* C12: a name Y that is an edge target of a key X but not a key itself is
\* in the result of the call seeded with {X}; when Y is the only edge of X
\* the result is exactly {X, Y}; and the iteration that dequeues a name
\* that is not a key changes neither the result nor the visited set and
\* stays in the loop.
C12_UndefinedLeaves ==
    /\ [](pc = "first_ret" =>
            \A x \in DOMAIN graph : \A y \in graph[x] \ DOMAIN graph :
                start_nodes = {x}
                   => /\ y \in reachable_set
                      /\ graph[x] = {y} => reachable_set = {x, y})
    /\ [][(pc = "reach_loop" /\ queue # <<>> /\ Head(queue) \notin DOMAIN graph)
             => /\ reachable_set' = reachable_set
                /\ visited' = visited
                /\ queue' = Tail(queue)
                /\ pc' = "reach_loop"]_vars

\* the seed has a single edge, to a name without definition, and the call
\* has returned the two names
C12_Witness ==
    /\ pc = "first_ret"
    /\ \E x \in DOMAIN graph : \E y \in Names \ DOMAIN graph :
          /\ start_nodes = {x}
          /\ graph[x] = {y}
          /\ reachable_set = {x, y}

\* ------------------------------------------------------------------------
\* Properties of the whole script with whitelist seeds that are not keys
\* (Spec, FairSpec)
\* ------------------------------------------------------------------------
\* every name of the model
AllNames == Names \cup FileNames

\* the least set that contains S, filtered by nothing, and every edge
\* target of each key it contains
ClosureFrom(g, S) ==
    {n \in AllNames :
        \A X \in SUBSET AllNames :
            (/\ S \subseteq X
             /\ \A k \in X : k \in DOMAIN g => g[k] \subseteq X) => n \in X}

RECURSIVE SpanAfter(_, _)
SpanAfter(file, n) ==
    IF n = 0 THEN NoModule
    ELSE IF module_def_regex(file[n]) # NoMatch THEN module_def_regex(file[n])
    ELSE IF endmodule_regex(file[n]) THEN NoModule
    ELSE SpanAfter(file, n - 1)

\* the names of the instantiation lines that lie inside a span of module k
InstantiatedInside(file, k) ==
    {inst_regex(file[n]) :
        n \in {m \in 1..Len(file) :
                 /\ SpanAfter(file, m) = k
                 /\ module_def_regex(file[m]) = NoMatch
                 /\ inst_regex(file[m]) # NoMatch}}

\* C14 as stated: after every line the builder's current module is the
\* module whose span contains the line, none after an endmodule line, and
\* every edge of the built graph comes from an instantiation line inside a
\* span of its key.
C14_EdgesOnlyInsideSpan ==
    pc # "step1" =>
        /\ \A n \in 0..Len(lines) :
              BuildPrefix(lines, n).current_module = SpanAfter(lines, n)
        /\ \A k \in DOMAIN graph : graph[k] \subseteq InstantiatedInside(lines, k)

\* ------------------------------------------------------------------------
\* SpecBlocks: the script up to the return of the call from the boundary
\* (lines 75-100), on files made of module definition blocks, each module
\* defined once, in every order of the blocks; no whitelist seed is given
\* ------------------------------------------------------------------------
\* the largest number of instantiation lines of a block
MaxInsts == 1

\* the concatenation of a sequence of sequences
RECURSIVE Flatten(_)
Flatten(seqs) ==
    IF seqs = <<>> THEN <<>> ELSE Head(seqs) \o Flatten(Tail(seqs))

\* a definition line, one instantiation line per target, an endmodule line
Block(name, targets) ==
    <<ModuleLine(IF name = "Sub" THEN 2 ELSE 0, name)>>
       \o [k \in 1..Len(targets) |-> InstanceLine(targets[k])]
       \o <<EndmoduleLine>>

InstLists == UNION {[1..n -> FileNames] : n \in 0..MaxInsts}

BlockFiles ==
    UNION {{Flatten([k \in 1..Len(order) |-> Block(order[k], body[order[k]])]) :
               order \in Orders(K), body \in [K -> InstLists]} :
             K \in SUBSET FileNames}

InitBlocks ==
    /\ pc = "step1"
    /\ ret = "none"
    /\ lines \in BlockFiles
    /\ graph = <<>>
    /\ boundary_module \in FileNames
    /\ internal_whitelist_seeds = {}
    /\ start_nodes = {}
    /\ reachable_set = {}
    /\ queue = <<>>
    /\ visited = {}
    /\ modules_inside_boundary = {}
    /\ internal_keep_set = {}
    /\ blacklist_set = {}
    /\ NoAnnotate
    /\ NoTools
    /\ NoCalls
    /\ exit_status = Running

NextBlocks ==
    \/ Step1
    \/ BoundaryCheck
    \/ Step2Call
    \/ ReachIter
    \/ ReachReturn
    \/ Step2Ret

SpecBlocks == InitBlocks /\ [][NextBlocks]_vars

\* the lines at which a block of the file starts
BlockStarts(file) == {n \in 1..Len(file) : module_def_regex(file[n]) # NoMatch}

\* the block that starts at line n: up to the line before the next start
BlockAt(file, n) ==
    LET later == {m \in BlockStarts(file) : m > n}
        last  == IF later = {} THEN Len(file)
                 ELSE (CHOOSE m \in later : \A o \in later : m <= o) - 1
    IN SubSeq(file, n, last)

BlocksOf(file) == {BlockAt(file, n) : n \in BlockStarts(file)}

\* line n instantiates, inside the span of module parent, a module whose
\* definition line comes later in the file
ForwardReference(file, n, parent, name) ==
    /\ module_def_regex(file[n]) = NoMatch
    /\ inst_regex(file[n]) = name
    /\ SpanAfter(file, n) = parent
    /\ \E m \in n + 1..Len(file) : module_def_regex(file[m]) = name

MaxParEdges == 2

ParGraphs == GraphsUpTo(MaxParEdges)

\* lines 46-53: the locals after one iteration of the while loop, for each
\* order in which the edge set of the dequeued module can be iterated
IterationResults(g, st) ==
    LET module == Head(st.queue)
        st0    == [st EXCEPT !.queue = PopLeft(st.queue)]
    IN IF module \in DOMAIN g
       THEN {ExpandDependencies(st0, order) : order \in Orders(g[module])}
       ELSE {st0}

InitPar ==
    /\ pc = "par"
    /\ ret = "none"
    /\ lines = <<>>
    /\ graph \in ParGraphs
    /\ boundary_module \in DOMAIN graph
    /\ internal_whitelist_seeds \in SeedSets
    /\ start_nodes = {}
    /\ reachable_set = {}
    /\ queue = <<>>
    /\ visited = {}
    /\ modules_inside_boundary = {}
    /\ internal_keep_set = {}
    /\ blacklist_set = {}
    /\ NoAnnotate
    /\ NoTools
    /\ NoCalls
    /\ exit_status = Running

\* line 99, lines 41-45: the call from the boundary module
BoundaryCall ==
    /\ pc = "par"
    /\ par_state[1] = "idle"
    /\ start_nodes' = {boundary_module}
    /\ reachable_set' = DefinedSeeds(graph, start_nodes')
    /\ queue' \in Orders(reachable_set')
    /\ visited' = InitialVisited(reachable_set', start_nodes')
    /\ par_state' = [par_state EXCEPT ![1] = "running"]
    /\ UNCHANGED <<pc, ret, mainVars, confVars, annotVars, callVars, exit_status,
                   par_reachable_set, par_queue, par_visited, btorVars, extVars>>

\* lines 46-53: one iteration of the loop of the call from the boundary
BoundaryIter ==
    /\ pc = "par"
    /\ par_state[1] = "running"
    /\ queue # <<>>
    /\ \E st \in IterationResults(graph, [reachable_set |-> reachable_set,
                                          visited |-> visited, queue |-> queue]) :
          /\ reachable_set' = st.reachable_set
          /\ visited' = st.visited
          /\ queue' = st.queue
    /\ UNCHANGED <<pc, ret, start_nodes, mainVars, confVars, annotVars, callVars,
                   exit_status, toolVars>>

\* lines 54, 99-100: the call returns, the boundary module is discarded
BoundaryRet ==
    /\ pc = "par"
    /\ par_state[1] = "running"
    /\ queue = <<>>
    /\ modules_inside_boundary' = Discard(reachable_set, boundary_module)
    /\ par_state' = [par_state EXCEPT ![1] = "returned"]
    /\ UNCHANGED <<pc, ret, reachVars, internal_keep_set, blacklist_set, confVars,
                   annotVars, callVars, exit_status,
                   par_reachable_set, par_queue, par_visited, btorVars, extVars>>

\* line 104, lines 41-45: the call from the whitelist seeds
WhitelistCall ==
    /\ pc = "par"
    /\ par_state[2] = "idle"
    /\ par_reachable_set' = DefinedSeeds(graph, internal_whitelist_seeds)
    /\ par_queue' \in Orders(par_reachable_set')
    /\ par_visited' = InitialVisited(par_reachable_set', internal_whitelist_seeds)
    /\ par_state' = [par_state EXCEPT ![2] = "running"]
    /\ UNCHANGED <<pc, ret, reachVars, mainVars, confVars, annotVars, callVars,
                   exit_status, btorVars, extVars>>

\* lines 46-53: one iteration of the loop of the call from the seeds
WhitelistIter ==
    /\ pc = "par"
    /\ par_state[2] = "running"
    /\ par_queue # <<>>
    /\ \E st \in IterationResults(graph, [reachable_set |-> par_reachable_set,
                                          visited |-> par_visited,
                                          queue |-> par_queue]) :
          /\ par_reachable_set' = st.reachable_set
          /\ par_visited' = st.visited
          /\ par_queue' = st.queue
    /\ UNCHANGED <<pc, ret, reachVars, mainVars, confVars, annotVars, callVars,
                   exit_status, par_state, btorVars, extVars>>

\* lines 54, 104: the call returns and its result is bound
WhitelistRet ==
    /\ pc = "par"
    /\ par_state[2] = "running"
    /\ par_queue = <<>>
    /\ internal_keep_set' = par_reachable_set
    /\ par_state' = [par_state EXCEPT ![2] = "returned"]
    /\ UNCHANGED <<pc, ret, reachVars, modules_inside_boundary, blacklist_set,
                   confVars, annotVars, callVars, exit_status,
                   par_reachable_set, par_queue, par_visited, btorVars, extVars>>

\* line 109, once both results are bound
BlacklistStep ==
    /\ pc = "par"
    /\ par_state = <<"returned", "returned">>
    /\ blacklist_set' = Difference(modules_inside_boundary, internal_keep_set)
    /\ pc' = "par_done"
    /\ UNCHANGED <<ret, reachVars, modules_inside_boundary, internal_keep_set,
                   confVars, annotVars, callVars, exit_status, toolVars>>

NextPar ==
    \/ BoundaryCall
    \/ BoundaryIter
    \/ BoundaryRet
    \/ WhitelistCall
    \/ WhitelistIter
    \/ WhitelistRet
    \/ BlacklistStep

SpecPar == InitPar /\ [][NextPar]_vars

\* C16: no step of either call changes the graph, the seed collection or
\* the boundary; a step of one call leaves the locals of the other call as
\* they were; and in whatever order the two calls start and their
\* iterations interleave, the blacklist of line 109 is the set reachable
\* from the boundary, without the boundary, minus the set reachable from
\* the seeds - the value the sequential script computes.
C16_GraphReadOnlyOrderFree ==
    /\ [][/\ graph' = graph
          /\ internal_whitelist_seeds' = internal_whitelist_seeds
          /\ boundary_module' = boundary_module]_vars
    /\ [][/\ <<reachable_set, queue, visited>>' # <<reachable_set, queue, visited>>
             => <<par_reachable_set, par_queue, par_visited>>'
                   = <<par_reachable_set, par_queue, par_visited>>
          /\ par_state[1] = "returned" => reachable_set' = reachable_set
          /\ par_state[2] = "returned" => par_reachable_set' = par_reachable_set]_vars
    /\ [](pc = "par_done" =>
            /\ modules_inside_boundary
                  = LeastClosed(graph, {boundary_module}) \ {boundary_module}
            /\ internal_keep_set = LeastClosed(graph, internal_whitelist_seeds)
            /\ blacklist_set
                  = (LeastClosed(graph, {boundary_module}) \ {boundary_module})
                       \ LeastClosed(graph, internal_whitelist_seeds))

\* both calls reached a common module, one module is kept and one is
\* blacklisted
C16_Witness ==
    /\ pc = "par_done"
    /\ blacklist_set # {}
    /\ modules_inside_boundary \cap internal_keep_set # {}
    /\ boundary_module \notin internal_keep_set

\* ------------------------------------------------------------------------
\* Properties of the loop of find_all_reachable (SpecReach)
\* ------------------------------------------------------------------------
\* the names that appear in the graph as keys or as edge targets
NamesOf(g) == DOMAIN g \cup UNION {g[k] : k \in DOMAIN g}

\* C17: in the loop, visited equals reachable_set and every queued name is
\* visited; the queue never holds a name twice; an iteration removes the
\* head and appends only names that were not visited before, marking them
\* visited, and visited only grows, so a name is enqueued at most once.
\* The number of dequeues so far is Cardinality(visited) - Len(queue): it
\* is 0 when the loop is entered, goes up by one with every iteration, and
\* is at most the number of names that appear in the graph.
C17_EnqueuedOnce ==
    /\ [](pc = "reach_loop" =>
            /\ visited = reachable_set
            /\ \A k \in 1..Len(queue) : queue[k] \in visited
            /\ \A k, m \in 1..Len(queue) : k # m => queue[k] # queue[m]
            /\ Len(queue) <= Cardinality(visited)
            /\ Cardinality(visited) <= Cardinality(NamesOf(graph)))
    /\ [][(pc # "reach_loop" /\ pc' = "reach_loop")
             => Cardinality(visited') = Len(queue')]_vars
    /\ [][(pc = "reach_loop" /\ pc' = "reach_loop") =>
            /\ visited \subseteq visited'
            /\ Len(queue') >= Len(queue) - 1
            /\ SubSeq(queue', 1, Len(queue) - 1) = Tail(queue)
            /\ \A k \in Len(queue)..Len(queue') :
                  queue'[k] \notin visited /\ queue'[k] \in visited'
            /\ Cardinality(visited') - Len(queue')
                  = Cardinality(visited) - Len(queue) + 1]_vars

\* every visited name has been dequeued, and one of them is an edge target
\* of two visited keys: it was met twice and enqueued once
C17_Witness ==
    /\ pc = "reach_loop"
    /\ queue = <<>>
    /\ \E k \in visited : \E p1, p2 \in visited \cap DOMAIN graph :
          p1 # p2 /\ k \in graph[p1] /\ k \in graph[p2]

\* ------------------------------------------------------------------------
\* btor2-cleaner.py: process_btor2_file
\* ------------------------------------------------------------------------
\* A line of the BTOR2 file is the sequence of its whitespace-separated
\* tokens (what strip().split() gives); a ';' stands as a token of its own.
\* A name is a sequence of tokens too (what ' '.join gives); removing the
\* one character of the token "\" leaves the empty token.
\* the largest number of lines of a BTOR2 file
MaxBtorLines == 3

\* every variable of verilog-blackboxing.py before anything has run
NoBlackboxing ==
    /\ ret = "none"
    /\ graph = <<>>
    /\ boundary_module = NoModule
    /\ internal_whitelist_seeds = {}
    /\ start_nodes = {}
    /\ reachable_set = {}
    /\ queue = <<>>
    /\ visited = {}
    /\ modules_inside_boundary = {}
    /\ internal_keep_set = {}
    /\ blacklist_set = {}
    /\ NoAnnotate
    /\ NoCalls
    /\ exit_status = Running

CommandIds == {"5", "7"}

\* line 44: token.isdigit(), on the tokens of the files drawn
isdigit(token) == token \in CommandIds \cup {"1"}

\* lines 58, 75: '$' in the name
HasDollar(name) == \E k \in 1..Len(name) : name[k] \in {"$aux", "$junk"}

\* line 77: name.startswith('\\')
StartsWithBackslash(name) == name # <<>> /\ Head(name) \in {"\\rst", "\\"}

\* line 78: token[1:] for a token that starts with a backslash
DropFirstChar(token) ==
    IF token = "\\rst" THEN "rst" ELSE IF token = "\\" THEN "" ELSE token

\* lines 88, 91: the truth value of a name, false for the empty string
NonEmpty(name) == name # <<>> /\ name # <<"">>

CommandLines ==
    {<<id, "input", "1">> \o inline :
        id \in CommandIds, inline \in {<<>>, <<"clk">>, <<"$aux">>}}

CommentLines ==
    {<<";", "5", name>> : name \in {"rst", "$junk", "\\rst", "\\"}}
       \cup {<<";", "7", "rst">>}

BtorLineValues ==
    CommandLines \cup CommentLines
       \cup {<<>>, <<";", "begin">>, <<";", "5">>,
             <<"5", "input", "1", "clk", ";", "file">>}

BtorFiles == UNION {[1..n -> BtorLineValues] : n \in 0..MaxBtorLines}

\* line 26: the line starts with '; begin' or '; end'
Decorative(line) ==
    Len(line) >= 2 /\ line[1] = ";" /\ line[2] \in {"begin", "end"}

\* line 33: the tokens before the first ';'
line_no_trailing_comment(line) ==
    LET semis == {k \in 1..Len(line) : line[k] = ";"}
    IN IF semis = {} THEN line
       ELSE SubSeq(line, 1, (CHOOSE k \in semis : \A m \in semis : k <= m) - 1)

\* lines 26-28, 35-37: the line is passed over without output
Skipped(line) ==
    line = <<>> \/ Decorative(line) \/ line_no_trailing_comment(line) = <<>>

\* lines 43-46: the number of tokens up to and including the last number
last_numeric_idx(tokens) ==
    LET nums == {k \in 1..Len(tokens) : isdigit(tokens[k])}
    IN IF nums = {} THEN 0 ELSE CHOOSE k \in nums : \A m \in nums : m <= k

\* line 49
base_command_tokens(tokens) == SubSeq(tokens, 1, last_numeric_idx(tokens))

\* line 53
inline_symbol_tokens(tokens) ==
    SubSeq(tokens, last_numeric_idx(tokens) + 1, Len(tokens))

\* lines 54-59
good_inline_name(tokens) ==
    IF inline_symbol_tokens(tokens) # <<>> /\ ~HasDollar(inline_symbol_tokens(tokens))
    THEN inline_symbol_tokens(tokens) ELSE <<>>

\* lines 68-70: the next line is the name comment of the command
IsNameComment(next_tokens, command_id) ==
    /\ next_tokens # <<>>
    /\ next_tokens[1] = ";"
    /\ Len(next_tokens) >= 3
    /\ next_tokens[2] = command_id

\* lines 77-78 left out: the name keeps its backslash
KeepBackslash(name) == name

\* lines 77-78: one leading backslash is removed
StripBackslash(name) ==
    IF StartsWithBackslash(name)
    THEN <<DropFirstChar(Head(name))>> \o Tail(name) ELSE name

\* lines 72-79: the name taken from the name comment, empty when rejected
comment_name(next_tokens) ==
    LET potential_name_from_comment == SubSeq(next_tokens, 3, Len(next_tokens))
    IN IF ~HasDollar(potential_name_from_comment)
       THEN StripBackslash(potential_name_from_comment) ELSE <<>>

\* lines 84-93
final_line(base_command, cname, inline) ==
    IF NonEmpty(cname) THEN base_command \o cname
    ELSE IF NonEmpty(inline) THEN base_command \o inline
    ELSE base_command

InitBtor ==
    /\ pc = "scan"
    /\ lines \in BtorFiles
    /\ NoBlackboxing
    /\ NoTools

\* lines 22-28, 33-37: an iteration that passes over the line
SkipLine ==
    /\ pc = "scan"
    /\ i < Len(lines)
    /\ Skipped(lines[i + 1])
    /\ i' = i + 1
    /\ UNCHANGED <<pc, ret, processed_lines, reachVars, mainVars, confVars,
                   annotVars, callVars, exit_status, parVars, extVars>>

\* lines 22-95: an iteration on a command line
CleanLine ==
    /\ pc = "scan"
    /\ i < Len(lines)
    /\ ~Skipped(lines[i + 1])
    /\ LET tokens     == line_no_trailing_comment(lines[i + 1])
           command_id == tokens[1]
           consumed   == /\ i + 1 < Len(lines)
                         /\ IsNameComment(lines[i + 2], command_id)
           cname      == IF consumed THEN comment_name(lines[i + 2]) ELSE <<>>
       IN /\ processed_lines' =
                Append(processed_lines,
                       final_line(base_command_tokens(tokens), cname,
                                  good_inline_name(tokens)))
          /\ i' = IF consumed THEN i + 2 ELSE i + 1
    /\ UNCHANGED <<pc, ret, reachVars, mainVars, confVars, annotVars, callVars,
                   exit_status, parVars, extVars>>

\* lines 22, 98-101: the loop ends and the processed lines are written
WriteOutput ==
    /\ pc = "scan"
    /\ i >= Len(lines)
    /\ outfile' = processed_lines
    /\ pc' = "written"
    /\ UNCHANGED <<ret, reachVars, mainVars, confVars, infile, apos, out_open,
                   annotated_count, callVars, exit_status, toolVars>>

NextBtor == SkipLine \/ CleanLine \/ WriteOutput

SpecBtor == InitBtor /\ [][NextBtor]_vars

\* the loop of line 22 is sequential code: it goes on while it can
FairBtor == SpecBtor /\ WF_vars(NextBtor)

\* the scan is at a command line that a name comment follows
AtCommandWithNameComment ==
    /\ pc = "scan"
    /\ i + 1 < Len(lines)
    /\ ~Skipped(lines[i + 1])
    /\ Len(lines[i + 2]) >= 3
    /\ lines[i + 2][1] = ";"
    /\ lines[i + 2][2] = lines[i + 1][1]

\* the name the comment gives, and the command's inline name
CommentsName == SubSeq(lines[i + 2], 3, Len(lines[i + 2]))

InlineName == inline_symbol_tokens(line_no_trailing_comment(lines[i + 1]))

BaseCommand == base_command_tokens(line_no_trailing_comment(lines[i + 1]))

\* a name without one leading backslash
Unescaped(name) ==
    IF name # <<>> /\ Head(name) \in {"\\rst", "\\"}
    THEN <<DropFirstChar(Head(name))>> \o Tail(name) ELSE name

\* the name to emit: the comment's name as it stands
NameAsWritten ==
    IF ~HasDollar(CommentsName) THEN CommentsName
    ELSE IF ~HasDollar(InlineName) THEN InlineName ELSE <<>>

\* the name to emit: the comment's name without its leading backslash, the
\* inline name when nothing is left of it
NameUnescaped ==
    IF ~HasDollar(CommentsName) /\ NonEmpty(Unescaped(CommentsName))
    THEN Unescaped(CommentsName)
    ELSE IF ~HasDollar(InlineName) THEN InlineName ELSE <<>>

\* C18 as stated: at a command line followed by its name comment, one line
\* is emitted, the command with the comment's name if that has no '$', else
\* with the inline name if that has no '$', else with no name; the comment
\* line is consumed and gives no output line; the index strictly increases
\* on every iteration and the scan ends.
C18_CommentNameEmitted ==
    /\ [][AtCommandWithNameComment =>
            /\ processed_lines' = Append(processed_lines, BaseCommand \o NameAsWritten)
            /\ i' = i + 2]_vars
    /\ [][(pc = "scan" /\ pc' = "scan") => (i' > i /\ i' <= Len(lines))]_vars
    /\ <>(pc = "written")

\* C18 amended: the same, the name emitted being the comment's name with
\* one leading backslash removed, and the inline name (if it has no '$')
\* when the comment's name has a '$' or is a backslash alone.
C18_CommentNameUnescaped ==
    /\ [][AtCommandWithNameComment =>
            /\ processed_lines' = Append(processed_lines, BaseCommand \o NameUnescaped)
            /\ i' = i + 2]_vars
    /\ [][(pc = "scan" /\ pc' = "scan") => (i' > i /\ i' <= Len(lines))]_vars
    /\ [](pc = "written" => outfile = processed_lines /\ i = Len(lines))
    /\ <>(pc = "written")

\* a command with an inline name, followed by its name comment whose name
\* starts with a backslash, has been cleaned: one line, the unescaped name
C18_Witness ==
    /\ pc = "scan"
    /\ i = 2
    /\ Len(lines) >= 2
    /\ lines[1] = <<"5", "input", "1", "clk">>
    /\ lines[2] = <<";", "5", "\\rst">>
    /\ processed_lines = << <<"5", "input", "1", "rst">> >>

\* ------------------------------------------------------------------------
\* ext_definition_adder.py: find_and_define_missing_modules
\* ------------------------------------------------------------------------
\* The lines of the file are drawn one by one as the loop of line 71 reads
\* them. A Python dict is the sequence of its <<key, value>> pairs in
\* insertion order.
\* the largest number of lines read
MaxExtLines == 7

ExtNames == {"foo_ext", "bar_ext"}

\* line 61, group 1: an identifier that ends with _ext
EndsWithExt(tok) == tok \in ExtNames

\* line 61: ^\s*([a-zA-Z_][\w]*_ext)\s+([a-zA-Z_][\w]*)?\s*\( , group 1 or
\* no match
inst_start_regex(line) ==
    IF /\ Len(line.toks) >= 2
       /\ EndsWithExt(line.toks[1])
       /\ \/ line.toks[2] = "("
          \/ /\ Len(line.toks) >= 3
             /\ IsIdentifier(line.toks[2])
             /\ line.toks[3] = "("
    THEN line.toks[1]
    ELSE NoMatch

\* line 62: ^\s*\.([a-zA-Z_][\w]+)\s*\(\s*([a-zA-Z_][\w]+)\s*\) , the two
\* groups or no match
port_conn_regex(line) ==
    IF /\ Len(line.toks) >= 5
       /\ line.toks[1] = "."
       /\ IsLongIdentifier(line.toks[2])
       /\ line.toks[3] = "("
       /\ IsLongIdentifier(line.toks[4])
       /\ line.toks[5] = ")"
    THEN <<line.toks[2], line.toks[4]>>
    ELSE NoMatch

\* line 93: ");" in line
HasClose(line) == \E k \in 1..Len(line.toks) : line.toks[k] = ");"

InstStartLine(name, inst) == [indent |-> 2, toks |-> <<name, inst, "(">>]
InstOneLine(name, inst) == [indent |-> 2, toks |-> <<name, inst, "(", ");">>]
PortLine(port, wire, last) ==
    [indent |-> 4, toks |-> <<".", port, "(", wire, ")", last>>]
CloseLine == [indent |-> 2, toks |-> <<");">>]

ExtLineValues ==
    {ModuleLine(0, "Top"), ModuleLine(0, "foo_ext"), EndmoduleLine, CloseLine,
     InstStartLine("foo_ext", "u0"), InstStartLine("bar_ext", "u1"),
     InstOneLine("foo_ext", "u2"),
     PortLine("pp", "clk", ","), PortLine("pp", "dout", ","),
     PortLine("qq", "dout", ");")}

\* dict operations
DictKeys(d) == {d[k][1] : k \in DOMAIN d}
DictIndex(d, key) == CHOOSE k \in DOMAIN d : d[k][1] = key
DictGet(d, key) == d[DictIndex(d, key)][2]
DictSet(d, key, val) ==
    IF key \in DictKeys(d)
    THEN [d EXCEPT ![DictIndex(d, key)] = <<key, val>>]
    ELSE Append(d, <<key, val>>)

\* the declarations pass 1 records for a module (lines 36-41)
ClkOnly == [w \in {"clk"} |-> [type |-> "input", width |-> ""]]
ClkDout ==
    [w \in {"clk", "dout"} |->
        IF w = "clk" THEN [type |-> "input", width |-> ""]
        ELSE [type |-> "output", width |-> "[7:0]"]]

\* the module_declarations argument: some modules with their declarations
ExtContexts ==
    UNION {[K -> {ClkOnly, ClkDout}] : K \in SUBSET {"Top", "foo_ext"}}

\* line 82 without its second test
NotDefined(name, defined, missing) == name \notin defined

\* line 82: the module is neither defined nor selected already
NotYetSelected(name, defined, missing) ==
    name \notin defined /\ name \notin DictKeys(missing)

\* lines 96-104: the ports inferred from the connections whose wire the
\* parent declares
RECURSIVE inferred_ports(_, _)
inferred_ports(connections, parent_context) ==
    IF connections = <<>> THEN <<>>
    ELSE LET port_name == Head(connections)[1]
             wire_name == Head(connections)[2]
             rest      == inferred_ports(Tail(connections), parent_context)
         IN IF wire_name \in DOMAIN parent_context
            THEN <<[name  |-> port_name,
                    dir   |-> IF parent_context[wire_name].type # "output"
                              THEN "input" ELSE "output",
                    width |-> parent_context[wire_name].width]>> \o rest
            ELSE rest

\* lines 65-69 with the arguments: the keys of module_declarations are
\* modules pass 1 found defined
InitExt ==
    /\ pc = "pass2"
    /\ lines = <<>>
    /\ NoBlackboxing
    /\ par_reachable_set = {}
    /\ par_queue = <<>>
    /\ par_visited = {}
    /\ par_state = <<"idle", "idle">>
    /\ i = 0
    /\ processed_lines = <<>>
    /\ module_declarations \in ExtContexts
    /\ defined_modules \in SUBSET ({"Top"} \cup ExtNames)
    /\ DOMAIN module_declarations \subseteq defined_modules
    /\ missing_modules_to_generate = <<>>
    /\ current_parent_module = NoModule
    /\ parsing_instantiation = FALSE
    /\ current_connections = <<>>
    /\ current_ext_module_name = NoModule
    /\ epos = 1
    /\ ext_line = NoLine

\* lines 71-111: one iteration of the for loop, on the line read
ScanLine ==
    /\ pc = "pass2"
    /\ epos <= MaxExtLines
    /\ \E line \in ExtLineValues :
          LET parent   == IF endmodule_regex(line) THEN NoModule
                          ELSE IF module_def_regex(line) # NoMatch
                               THEN module_def_regex(line)
                               ELSE current_parent_module
              started  == /\ parent # NoModule
                          /\ ~parsing_instantiation
                          /\ inst_start_regex(line) # NoMatch
                          /\ NotYetSelected(inst_start_regex(line), defined_modules,
                                            missing_modules_to_generate)
              parsing  == parsing_instantiation \/ started
              ext_name == IF started THEN inst_start_regex(line)
                          ELSE current_ext_module_name
              conns0   == IF started THEN <<>> ELSE current_connections
              conns    == IF parsing /\ port_conn_regex(line) # NoMatch
                          THEN DictSet(conns0, port_conn_regex(line)[1],
                                       port_conn_regex(line)[2])
                          ELSE conns0
              closed   == parsing /\ HasClose(line)
              has_context == /\ parent \in DOMAIN module_declarations
                             /\ DOMAIN module_declarations[parent] # {}
          IN /\ ext_line' = line
             /\ current_parent_module' = parent
             /\ missing_modules_to_generate' =
                   IF closed /\ has_context
                   THEN DictSet(missing_modules_to_generate, ext_name,
                                inferred_ports(conns, module_declarations[parent]))
                   ELSE missing_modules_to_generate
             /\ parsing_instantiation' = (parsing /\ ~closed)
             /\ current_ext_module_name' = IF closed THEN NoModule ELSE ext_name
             /\ current_connections' = IF closed THEN <<>> ELSE conns
    /\ epos' = epos + 1
    /\ UNCHANGED <<pc, ret, reachVars, mainVars, confVars, annotVars, callVars,
                   exit_status, parVars, btorVars, defined_modules,
                   module_declarations>>

\* lines 71, 113: the file has no more lines, the dict is returned
ReturnMissing ==
    /\ pc = "pass2"
    /\ pc' = "pass3"
    /\ UNCHANGED <<ret, reachVars, mainVars, confVars, annotVars, callVars,
                   exit_status, toolVars>>

\* lines 120-133 (generate_and_append_modules): one module text for each
\* item of the dict, here its name and its ports
GenerateModules ==
    /\ pc = "pass3"
    /\ outfile' = [k \in 1..Len(missing_modules_to_generate) |->
                     [name  |-> missing_modules_to_generate[k][1],
                      ports |-> missing_modules_to_generate[k][2]]]
    /\ pc' = "ext_done"
    /\ UNCHANGED <<ret, reachVars, mainVars, confVars, infile, apos, out_open,
                   annotated_count, callVars, exit_status, toolVars>>

NextExt == ScanLine \/ ReturnMissing \/ GenerateModules

SpecExt == InitExt /\ [][NextExt]_vars

====
